---- MODULE Spec2Model ----
(***************************************************************************)
(* A model of src/weather/main.py: the module's start-up check of its two  *)
(* API keys, the get_weather tool, and the chainlit session hooks          *)
(* (on_chat_start / on_message) around the session's chat_history list.    *)
(*                                                                         *)
(* Strings are sequences of pieces (an f-string is the sequence of its     *)
(* literal parts and its interpolated values), a location is a sequence of *)
(* characters, and Python list objects live in a small heap so that the    *)
(* aliasing between the session's stored list and a handler's local        *)
(* `history` is explicit.                                                  *)
(***************************************************************************)
EXTENDS Integers, Sequences, FiniteSets, TLC

(* ------------------------------ bounds --------------------------------- *)

\* user messages dispatched in one session
MaxTurns == 3
\* message-handler tasks the chat runtime may have created and not yet reused
NumHandlers == 2
\* characters in a location argument
MaxLen == 3

Handlers == 1..NumHandlers
ListIds == 1..(NumHandlers + 1)

Msgs == {"weather in karachi?", "and tomorrow?"}
Outs == {"It is sunny.", "Which Paris?"}
Errs == {"quota exceeded", "connection reset"}

(* ------------------------------ state ---------------------------------- *)

VARIABLES
    env,        \* os.environ after load_dotenv: the two keys
    modState,   \* position of module initialisation: loading / aborted / ready
    startupError, \* message of the ValueError that aborted the import
    session,    \* ConversationSession state: Uninitialized / Active
    welcomes,   \* welcome messages sent to the UI
    heap,       \* Python list objects: id -> sequence of turns
    stored,     \* cl.user_session["chat_history"]: a list id, or NoList
    pc,         \* per handler task: where `main` is suspended
    text,       \* per handler: message.content
    hist,       \* per handler: the local `history` (a list id)
    resp,       \* per handler: response_content
    msg,        \* per handler: the cl.Message object and what the UI did with it
    agentIn,    \* per handler: the list value handed to Runner.run_sync
    log,        \* history variable: the turns in arrival order with their outcome
    turnOf,     \* history variable: per handler, its index in log
    before,     \* history variable: per handler, stored history when its turn began
    tpc,        \* get_weather: idle / returned / raised
    targ,       \* get_weather: the arguments of the last call
    net,        \* what the network did with the last call's request
    requests,   \* outbound GET requests of the last call, in order
    tout        \* get_weather: the returned string, or the escaped exception

chatVars == <<session, welcomes, heap, stored, pc, text, hist, resp, msg, agentIn,
              log, turnOf, before>>
toolVars == <<tpc, targ, net, requests, tout>>
vars == <<env, modState, startupError, chatVars, toolVars>>

(* --------------------------- module start-up --------------------------- *)

\* os.getenv returns None for an unset variable
NoneVal == "<None>"
EnvVals == {NoneVal, "", "key-1"}

\* a variant of Missing that tests `is None` instead of falsiness
MissingIsNone(v) == v = NoneVal

\* `not KEY`: None and the empty string are both falsy
Missing(v) == v = NoneVal \/ v = ""

LoadModule ==
    /\ modState = "loading"
    /\ IF Missing(env.GEMINI_API_KEY)
         THEN /\ modState' = "aborted"
              /\ startupError' = "GEMINI_API_KEY is missing in the .env file."
         ELSE IF Missing(env.WEATHER_API_KEY)
           THEN /\ modState' = "aborted"
                /\ startupError' = "WEATHER_API_KEY is missing in the .env file."
           ELSE /\ modState' = "ready"
                /\ startupError' = ""
    /\ UNCHANGED <<env, chatVars, toolVars>>

(* --------------------------- chat session ------------------------------ *)

\* the session key is absent (user_session.get returns None)
NoList == 0

UserTurn(c) == [role |-> "user", content |-> c]

AssistantTurn(c) == [role |-> "assistant", content |-> c]

Thinking == <<"Thinking...">>

\* f"Error: {str(e)}"
ErrorText(e) == <<"Error: ", e>>

\* the value of the session's chat_history
StoredHistory == IF stored = NoList THEN <<>> ELSE heap[stored]

Running(h) == pc[h] \in {"await_send", "await_update", "await_update_err"}

\* list ids some reference still reaches, given the new references
Live(st, hs) == {st} \cup {hs[h] : h \in Handlers}

\* a list object nothing references
FreshList == CHOOSE i \in ListIds : i \notin Live(stored, hist)

\* unreferenced list objects are reclaimed
Collect(hp, st, hs) == [i \in ListIds |-> IF i \in Live(st, hs) THEN hp[i] ELSE <<>>]

\* a variant of HistoryOrNew that always starts from a new list
HistoryAlwaysNew == FreshList

\* `cl.user_session.get("chat_history") or []`: the stored list object itself
\* when it is non-empty, a new list when it is None or empty (falsy)
HistoryOrNew == IF stored # NoList /\ heap[stored] # <<>> THEN stored ELSE FreshList

\* on_chat_start
start ==
    /\ modState = "ready"
    /\ session = "Uninitialized"
    /\ stored' = FreshList
    /\ heap' = [heap EXCEPT ![FreshList] = <<>>]
    /\ session' = "Active"
    /\ welcomes' = welcomes + 1
    /\ UNCHANGED <<env, modState, startupError, pc, text, hist, resp, msg, agentIn,
                   log, turnOf, before, toolVars>>

\* on_message up to its first await: the placeholder is created and sent
Dispatch(h, m) ==
    /\ session = "Active"
    /\ ~Running(h)
    /\ Len(log) < MaxTurns
    /\ text' = [text EXCEPT ![h] = m]
    /\ msg' = [msg EXCEPT ![h] = [content |-> Thinking, sends |-> 1, updates |-> 0,
                                  shown |-> Thinking]]
    /\ pc' = [pc EXCEPT ![h] = "await_send"]
    /\ resp' = [resp EXCEPT ![h] = ""]
    /\ agentIn' = [agentIn EXCEPT ![h] = <<>>]
    /\ log' = Append(log, [user |-> m, result |-> "pending", detail |-> ""])
    /\ turnOf' = [turnOf EXCEPT ![h] = Len(log) + 1]
    /\ before' = [before EXCEPT ![h] = StoredHistory]
    /\ UNCHANGED <<env, modState, startupError, session, welcomes, heap, stored, hist,
                   toolVars>>

\* the heap after `history = ... or []` and `history.append(user turn)`
AfterUserAppend(h, hid) ==
    [heap EXCEPT ![hid] = Append(IF hid = stored THEN heap[stored] ELSE <<>>,
                                 UserTurn(text[h]))]

\* msg.content = c; await msg.update()
Updated(m, c) == [m EXCEPT !.content = c, !.updates = @ + 1, !.shown = c]

\* a variant of the failure path that sends a new message instead of updating
RunRaisesSendsAgain(h, e) ==
    /\ pc[h] = "await_send"
    /\ LET hid == HistoryOrNew IN
         /\ hist' = [hist EXCEPT ![h] = hid]
         /\ heap' = AfterUserAppend(h, hid)
         /\ agentIn' = [agentIn EXCEPT ![h] = AfterUserAppend(h, hid)[hid]]
    /\ msg' = [msg EXCEPT ![h] = [@ EXCEPT !.sends = @ + 1]]
    /\ log' = [log EXCEPT ![turnOf[h]] = [@ EXCEPT !.result = "raised", !.detail = e]]
    /\ pc' = [pc EXCEPT ![h] = "await_update_err"]
    /\ UNCHANGED <<env, modState, startupError, session, welcomes, stored, text, resp,
                   turnOf, before, toolVars>>

\* on_message from the resumption after msg.send() to the await of msg.update(),
\* Runner.run_sync returning a result
RunReturns(h, out) ==
    /\ pc[h] = "await_send"
    /\ LET hid == HistoryOrNew IN
         /\ hist' = [hist EXCEPT ![h] = hid]
         /\ heap' = AfterUserAppend(h, hid)
         /\ agentIn' = [agentIn EXCEPT ![h] = AfterUserAppend(h, hid)[hid]]
    /\ resp' = [resp EXCEPT ![h] = out]
    /\ msg' = [msg EXCEPT ![h] = Updated(@, <<out>>)]
    /\ log' = [log EXCEPT ![turnOf[h]] = [@ EXCEPT !.result = "ok", !.detail = out]]
    /\ pc' = [pc EXCEPT ![h] = "await_update"]
    /\ UNCHANGED <<env, modState, startupError, session, welcomes, stored, text,
                   turnOf, before, toolVars>>

\* the same stretch with Runner.run_sync raising: the except branch runs
RunRaises(h, e) ==
    /\ pc[h] = "await_send"
    /\ LET hid == HistoryOrNew IN
         /\ hist' = [hist EXCEPT ![h] = hid]
         /\ heap' = AfterUserAppend(h, hid)
         /\ agentIn' = [agentIn EXCEPT ![h] = AfterUserAppend(h, hid)[hid]]
    /\ msg' = [msg EXCEPT ![h] = Updated(@, ErrorText(e))]
    /\ log' = [log EXCEPT ![turnOf[h]] = [@ EXCEPT !.result = "raised", !.detail = e]]
    /\ pc' = [pc EXCEPT ![h] = "await_update_err"]
    /\ UNCHANGED <<env, modState, startupError, session, welcomes, stored, text, resp,
                   turnOf, before, toolVars>>

\* a variant of StoreAssistant that appends but never stores the list
StoreAssistantNoSet(h) ==
    /\ pc[h] = "await_update"
    /\ LET hs == [hist EXCEPT ![h] = NoList]
           hp == [heap EXCEPT ![hist[h]] = Append(@, AssistantTurn(resp[h]))]
       IN /\ hist' = hs
          /\ stored' = stored
          /\ heap' = Collect(hp, stored, hs)
    /\ pc' = [pc EXCEPT ![h] = "done"]
    /\ UNCHANGED <<env, modState, startupError, session, welcomes, text, resp, msg,
                   agentIn, log, turnOf, before, toolVars>>

\* on_message after the successful update: the assistant turn is appended and
\* the list is stored under chat_history
StoreAssistant(h) ==
    /\ pc[h] = "await_update"
    /\ LET hs == [hist EXCEPT ![h] = NoList]
           hp == [heap EXCEPT ![hist[h]] = Append(@, AssistantTurn(resp[h]))]
       IN /\ hist' = hs
          /\ stored' = hist[h]
          /\ heap' = Collect(hp, hist[h], hs)
    /\ pc' = [pc EXCEPT ![h] = "done"]
    /\ UNCHANGED <<env, modState, startupError, session, welcomes, text, resp, msg,
                   agentIn, log, turnOf, before, toolVars>>

\* on_message after the update in the except branch: the handler returns
ErrorReturn(h) ==
    /\ pc[h] = "await_update_err"
    /\ LET hs == [hist EXCEPT ![h] = NoList]
       IN /\ hist' = hs
          /\ heap' = Collect(heap, stored, hs)
    /\ pc' = [pc EXCEPT ![h] = "done"]
    /\ UNCHANGED <<env, modState, startupError, session, welcomes, stored, text, resp,
                   msg, agentIn, log, turnOf, before, toolVars>>

(* ------------------------------ get_weather ---------------------------- *)

WEATHER_API_URL == "https://api.openweathermap.org/data/2.5/weather"

Units == {"metric", "imperial"}

Chars == {" ", "a", "A", "-"}
Locations == UNION {[1..n -> Chars] : n \in 1..MaxLen}

IsSpace(c) == c = " "
IsCased(c) == c \in {"a", "A"}
Upper(c) == IF c = "a" THEN "A" ELSE c
Lower(c) == IF c = "A" THEN "a" ELSE c

RECURSIVE LStrip(_)
LStrip(s) == IF s # <<>> /\ IsSpace(Head(s)) THEN LStrip(Tail(s)) ELSE s

RECURSIVE RStrip(_)
RStrip(s) ==
    IF s # <<>> /\ IsSpace(s[Len(s)]) THEN RStrip(SubSeq(s, 1, Len(s) - 1)) ELSE s

\* str.strip(): whitespace removed at both ends
Strip(s) == RStrip(LStrip(s))

\* str.title(): a cased character is upper-cased when the character before it
\* is not cased (or there is none), lower-cased otherwise
Title(s) ==
    [i \in 1..Len(s) |->
        IF ~IsCased(s[i]) THEN s[i]
        ELSE IF i > 1 /\ IsCased(s[i - 1]) THEN Lower(s[i]) ELSE Upper(s[i])]

\* a variant of NormalizedLocation that upper-cases only the first character
NormalizedCapitalizeOnly(location) ==
    LET t == Strip(location)
    IN [i \in 1..Len(t) |-> IF i = 1 THEN Upper(t[i]) ELSE Lower(t[i])]

\* normalized_location = location.strip().title()
NormalizedLocation(location) == Title(Strip(location))

\* the GET request's query parameters
Params(location, unit) ==
    [url |-> WEATHER_API_URL, q |-> NormalizedLocation(location),
     appid |-> env.WEATHER_API_KEY, units |-> unit]

\* the body's "cod" field: the integer 200, the integer 404, the string "404"
Cod200 == "int:200"
Cods == {Cod200, "int:404", "str:404"}

\* the body has no "message" key
Absent == "<absent>"
Messages == {Absent, "city not found"}

Statuses == {200, 401, 404}

Observations ==
    {[name |-> "Karachi", description |-> "clear sky", temp |-> "30.5",
      feels_like |-> "33.0", humidity |-> "40", wind_speed |-> "3.1",
      pressure |-> "1008"],
     [name |-> "London", description |-> "light rain", temp |-> "48.2",
      feels_like |-> "44.6", humidity |-> "81", wind_speed |-> "12.7",
      pressure |-> "1017"]}

\* what the network can do with the request: fail to deliver a response
\* (requests raises ConnectionError or Timeout), or deliver one. `complete`
\* says whether the body holds the main, weather, wind and name keys.
TransportFailures == {[kind |-> "transport", error |-> e] : e \in {"ConnectionError", "Timeout"}}
Responses ==
    [kind : {"response"}, status : Statuses, cod : Cods, message : Messages,
     complete : BOOLEAN, obs : Observations]
NetOutcomes == TransportFailures \cup Responses

\* response.raise_for_status(): HTTPError for a 4xx or 5xx status
RaisesForStatus(status) == 400 <= status /\ status < 600

HTTPErrorText(status) == IF status < 500 THEN "Client Error" ELSE "Server Error"

\* the degree sign is written (deg)
Report(o) ==
    <<"Weather in ", o.name, ":\n",
      "- Temperature: ", o.temp, "(deg)C", " (feels like ", o.feels_like, "(deg)C", ")\n",
      "- Conditions: ", o.description, "\n",
      "- Humidity: ", o.humidity, "%\n",
      "- Wind speed: ", o.wind_speed, " m/s", "\n",
      "- Pressure: ", o.pressure, " hPa\n\n",
      "Stay tuned for personalized weather suggestions!">>

Returned(s) == [pc |-> "returned", out |-> s]
Raised(e) == [pc |-> "raised", out |-> <<e>>]

\* the body of get_weather after the request was made
ToolResult(r) ==
    IF r.kind = "transport"
      THEN Returned(<<"Failed to fetch weather: ", r.error>>)
    ELSE IF RaisesForStatus(r.status)
      THEN Returned(<<"Failed to fetch weather: ", HTTPErrorText(r.status)>>)
    ELSE IF r.cod # Cod200
      THEN Returned(<<"Error fetching weather: ",
                      IF r.message = Absent THEN "Unknown error" ELSE r.message>>)
    ELSE IF ~r.complete
      THEN Raised("KeyError")
    ELSE Returned(Report(r.obs))

\* one call of get_weather(location, unit)
get_weather(location, unit, r) ==
    /\ modState = "ready"
    /\ targ' = [location |-> location, unit |-> unit]
    /\ requests' = <<Params(location, unit)>>
    /\ net' = r
    /\ tpc' = ToolResult(r).pc
    /\ tout' = ToolResult(r).out
    /\ UNCHANGED <<env, modState, startupError, chatVars>>

\* the caller (the agent's run loop) takes the tool's result; the call is over
TakeResult ==
    /\ tpc # "idle"
    /\ tpc' = "idle"
    /\ targ' = [location |-> <<>>, unit |-> "metric"]
    /\ net' = [kind |-> "none"]
    /\ requests' = <<>>
    /\ tout' = <<>>
    /\ UNCHANGED <<env, modState, startupError, chatVars>>

(* ------------------------------ behaviours ----------------------------- *)

InitChat ==
    /\ session = "Uninitialized"
    /\ welcomes = 0
    /\ heap = [i \in ListIds |-> <<>>]
    /\ stored = NoList
    /\ pc = [h \in Handlers |-> "idle"]
    /\ text = [h \in Handlers |-> ""]
    /\ hist = [h \in Handlers |-> NoList]
    /\ resp = [h \in Handlers |-> ""]
    /\ msg = [h \in Handlers |-> [content |-> <<>>, sends |-> 0, updates |-> 0,
                                  shown |-> <<>>]]
    /\ agentIn = [h \in Handlers |-> <<>>]
    /\ log = <<>>
    /\ turnOf = [h \in Handlers |-> 0]
    /\ before = [h \in Handlers |-> <<>>]

InitTool ==
    /\ tpc = "idle"
    /\ targ = [location |-> <<>>, unit |-> "metric"]
    /\ net = [kind |-> "none"]
    /\ requests = <<>>
    /\ tout = <<>>

Init ==
    /\ env \in [GEMINI_API_KEY : EnvVals, WEATHER_API_KEY : EnvVals]
    /\ modState = "loading"
    /\ startupError = ""
    /\ InitChat
    /\ InitTool

\* the chat runtime hands a session's messages to the handler one at a time
SerialDispatch(h, m) == (\A g \in Handlers : ~Running(g)) /\ Dispatch(h, m)

Next ==
    \/ LoadModule
    \/ start
    \/ \E h \in Handlers, m \in Msgs : SerialDispatch(h, m)
    \/ \E h \in Handlers, out \in Outs : RunReturns(h, out)
    \/ \E h \in Handlers, e \in Errs : RunRaises(h, e)
    \/ \E h \in Handlers : StoreAssistant(h)
    \/ \E h \in Handlers : ErrorReturn(h)

Spec == Init /\ [][Next]_vars

\* a second message's task may be created while the first is suspended
NextOverlap ==
    \/ LoadModule
    \/ start
    \/ \E h \in Handlers, m \in Msgs : Dispatch(h, m)
    \/ \E h \in Handlers, out \in Outs : RunReturns(h, out)
    \/ \E h \in Handlers, e \in Errs : RunRaises(h, e)
    \/ \E h \in Handlers : StoreAssistant(h)
    \/ \E h \in Handlers : ErrorReturn(h)

SpecOverlap == Init /\ [][NextOverlap]_vars

\* the agent's run loop calls the tool, one call at a time
CallTool ==
    /\ modState = "ready"
    /\ tpc = "idle"
    /\ \E location \in Locations, unit \in Units, r \in NetOutcomes :
          get_weather(location, unit, r)

NextTool ==
    \/ LoadModule
    \/ CallTool
    \/ TakeResult

SpecTool == Init /\ [][NextTool]_vars

(* ------------------------------- properties ---------------------------- *)

IsPrefix(a, b) == Len(a) <= Len(b) /\ SubSeq(b, 1, Len(a)) = a

Quiescent == \A h \in Handlers : ~Running(h)

AllTurnsOk == \A i \in 1..Len(log) : log[i].result = "ok"

\* user_1, assistant_1, ..., user_N, assistant_N of the turns in arrival order
RECURSIVE Transcript(_)
Transcript(l) ==
    IF l = <<>> THEN <<>>
    ELSE Transcript(SubSeq(l, 1, Len(l) - 1))
         \o <<[role |-> "user", content |-> l[Len(l)].user],
              [role |-> "assistant", content |-> l[Len(l)].detail]>>

\* C1: when Runner.run_sync raises during a turn, the stored chat_history after
\* the turn is the stored history before the turn with that one user turn
\* appended (also on the first turn, when the stored list is empty), and the
\* message shown is "Error: " followed by the exception's message.
C1_FailedTurnAppendsUserTurn ==
    [][\A h \in Handlers :
          (pc[h] = "await_update_err" /\ pc'[h] = "done") =>
             /\ StoredHistory' = Append(before[h], [role |-> "user", content |-> text[h]])
             /\ msg'[h].shown = <<"Error: ", log[turnOf[h]].detail>>]_vars

\* C2: from a fresh session, once N turns have all succeeded the stored
\* chat_history has length 2N and reads user_1, assistant_1, ..., user_N,
\* assistant_N in arrival order, assistant_i being turn i's final output.
C2_SuccessfulTurnsAlternate ==
    (session = "Active" /\ Quiescent /\ AllTurnsOk) =>
        /\ Len(StoredHistory) = 2 * Len(log)
        /\ StoredHistory = Transcript(log)

C2_Witness ==
    /\ session = "Active" /\ Quiescent /\ AllTurnsOk
    /\ Len(log) >= 2
    /\ Len(StoredHistory) = 2 * Len(log)

\* C3: for a delivered provider response that reports a non-success status,
\* get_weather returns (does not raise) "Error fetching weather: " followed by
\* the provider's message, or by "Unknown error" when the body has none.
C3_NonSuccessGivesErrorFetching ==
    (tpc # "idle" /\ net.kind = "response" /\ (net.status # 200 \/ net.cod # Cod200)) =>
        /\ tpc = "returned"
        /\ tout = <<"Error fetching weather: ",
                    IF net.message = Absent THEN "Unknown error" ELSE net.message>>

\* C4: a transport failure makes get_weather return (not raise) a string that
\* starts with "Failed to fetch weather: ", and only a transport failure does:
\* a response the provider delivered never yields that prefix.
C4_FailedPrefixIffTransport ==
    tpc # "idle" =>
        /\ net.kind = "transport" =>
              (tpc = "returned" /\ Head(tout) = "Failed to fetch weather: ")
        /\ (tpc = "returned" /\ Head(tout) = "Failed to fetch weather: ") =>
              net.kind = "transport"

Contains(s, piece) == \E i \in 1..Len(s) : s[i] = piece

\* the value is directly followed by the label
Labelled(s, value, label) == \E i \in 1..(Len(s) - 1) : s[i] = value /\ s[i + 1] = label

\* the units the provider reports in for a requested unit system
TempLabel(unit) == IF unit = "imperial" THEN "(deg)F" ELSE "(deg)C"
WindLabel(unit) == IF unit = "imperial" THEN " mph" ELSE " m/s"

\* C5: for unit in {metric, imperial} and a well-formed success response,
\* get_weather returns a string holding the response's name, description,
\* temperature, feels-like, humidity, wind speed and pressure, with temperature
\* and wind speed labelled in the requested units, and ending with the
\* "Stay tuned" line.
C5_ReportInRequestedUnits ==
    (tpc # "idle" /\ net.kind = "response" /\ net.status = 200 /\ net.cod = Cod200
       /\ net.complete /\ targ.unit \in Units) =>
        /\ tpc = "returned"
        /\ Contains(tout, net.obs.name)
        /\ Contains(tout, net.obs.description)
        /\ Contains(tout, net.obs.humidity)
        /\ Contains(tout, net.obs.pressure)
        /\ Labelled(tout, net.obs.temp, TempLabel(targ.unit))
        /\ Labelled(tout, net.obs.feels_like, TempLabel(targ.unit))
        /\ Labelled(tout, net.obs.wind_speed, WindLabel(targ.unit))
        /\ tout[Len(tout)] = "Stay tuned for personalized weather suggestions!"

\* the text the turn ends with: the agent's output, or the error text
FinalText(h) ==
    IF log[turnOf[h]].result = "ok" THEN <<log[turnOf[h]].detail>>
    ELSE <<"Error: ", log[turnOf[h]].detail>>

\* C6: on the success path and on the failure path the handler sends one
\* message, the "Thinking..." placeholder, and updates that same message once
\* with the final text; no second send, and no turn ends with the placeholder.
C6_OneMessageUpdatedOnce ==
    \A h \in Handlers :
        /\ msg[h].sends <= 1
        /\ msg[h].updates <= 1
        /\ pc[h] = "await_send" =>
              (msg[h].sends = 1 /\ msg[h].updates = 0 /\ msg[h].shown = <<"Thinking...">>)
        /\ pc[h] \in {"await_update", "await_update_err", "done"} =>
              (msg[h].sends = 1 /\ msg[h].updates = 1 /\ msg[h].shown = FinalText(h))

C6_Witness ==
    \E h, g \in Handlers :
        /\ pc[h] = "done" /\ log[turnOf[h]].result = "ok"
        /\ pc[g] = "done" /\ log[turnOf[g]].result = "raised"
        /\ msg[h].updates = 1 /\ msg[g].updates = 1

KeyAbsent(k) == k = NoneVal \/ k = ""

\* C7: with GEMINI_API_KEY or WEATHER_API_KEY absent or empty, initialisation
\* aborts: the module is never ready, no session becomes Active, no message is
\* handled and the tool is never called; with both present start-up completes.
C7_MissingKeyAborts ==
    /\ (KeyAbsent(env.GEMINI_API_KEY) \/ KeyAbsent(env.WEATHER_API_KEY)) =>
          /\ modState # "ready"
          /\ session = "Uninitialized"
          /\ log = <<>>
          /\ \A h \in Handlers : pc[h] = "idle"
          /\ tpc = "idle"
    /\ (~KeyAbsent(env.GEMINI_API_KEY) /\ ~KeyAbsent(env.WEATHER_API_KEY)
          /\ modState # "loading") => modState = "ready"

C7_Witness ==
    /\ ~KeyAbsent(env.GEMINI_API_KEY)
    /\ env.WEATHER_API_KEY = ""
    /\ modState = "aborted"
    /\ startupError = "WEATHER_API_KEY is missing in the .env file."

\* C8: in an Active session every step leaves the stored chat_history a prefix
\* of what it becomes, and the agent is invoked with the complete stored
\* history followed by the new user turn.
C8_HistoryGrowsAndIsReplayed ==
    [][session = "Active" =>
          /\ IsPrefix(StoredHistory, StoredHistory')
          /\ \A h \in Handlers :
                (pc[h] = "await_send" /\ pc'[h] # "await_send") =>
                    agentIn'[h] = Append(StoredHistory,
                                         [role |-> "user", content |-> text[h]])]_vars

C8_Witness ==
    \E h \in Handlers :
        /\ pc[h] = "done"
        /\ log[turnOf[h]].result = "raised"
        /\ Len(agentIn[h]) >= 4
        /\ StoredHistory = agentIn[h]

\* C9: when two handlers of one session overlap, the second never reads or
\* writes chat_history between the first's user-turn append and its
\* assistant-turn store, and no successful turn is lost or split.
C9_SingleInFlightTurn ==
    /\ \A h, g \in Handlers :
          h # g => ~(pc[h] = "await_update" /\ pc[g] = "await_update")
    /\ (session = "Active" /\ Quiescent /\ AllTurnsOk) =>
          \A i \in 1..Len(log) :
              \E k \in 1..(Len(StoredHistory) - 1) :
                  /\ StoredHistory[k] = [role |-> "user", content |-> log[i].user]
                  /\ StoredHistory[k + 1] = [role |-> "assistant", content |-> log[i].detail]

\* C10 as stated: every call issues exactly one GET request whose q is the
\* location argument as given, units the unit argument, appid the weather key.
C10_RequestCarriesLocationAsGiven ==
    tpc # "idle" =>
        /\ Len(requests) = 1
        /\ requests[1].q = targ.location
        /\ requests[1].units = targ.unit
        /\ requests[1].appid = env.WEATHER_API_KEY

SameLetter(x, y) == x = y \/ {x, y} = {"a", "A"}

\* q is s without its leading i and trailing j blanks, in title case
TitleOfTrimmed(q, s, i, j) ==
    /\ Len(q) = Len(s) - i - j
    /\ \A k \in 1..i : s[k] = " "
    /\ \A k \in (Len(s) - j + 1)..Len(s) : s[k] = " "
    /\ q # <<>> => (q[1] # " " /\ q[Len(q)] # " ")
    /\ \A k \in 1..Len(q) :
          /\ SameLetter(q[k], s[i + k])
          /\ q[k] \in {"a", "A"} =>
                (q[k] = "A" <=> (k = 1 \/ q[k - 1] \notin {"a", "A"}))

\* C10 amended: every call issues exactly one GET request, on every path, whose
\* q is the location argument with surrounding whitespace stripped and put in
\* title case, units the unit argument, appid the configured weather key.
C10_RequestCarriesNormalizedLocation ==
    tpc # "idle" =>
        /\ Len(requests) = 1
        /\ \E i \in 0..Len(targ.location) : \E j \in 0..(Len(targ.location) - i) :
              TitleOfTrimmed(requests[1].q, targ.location, i, j)
        /\ requests[1].units = targ.unit
        /\ requests[1].appid = env.WEATHER_API_KEY
        /\ requests[1].url = "https://api.openweathermap.org/data/2.5/weather"

C10_Witness ==
    /\ tpc = "returned"
    /\ net.kind = "transport"
    /\ Len(requests) = 1
    /\ targ.location = <<" ", "a", "a">>
    /\ requests[1].q = <<"A", "a">>

====
